---- MODULE Spec2Model ----
(***************************************************************************)
(* Model of the route handlers of newlancuapp (src/src/app/api): prices,   *)
(* orders (pedidos), delivery rounds (repartos) and clients, over the      *)
(* tables they read and write through the ORM.                            *)
(*                                                                         *)
(* A table is a function from the ids of its rows to the rows.  A          *)
(* timestamp is a natural number; TicksPerDay consecutive timestamps make  *)
(* one calendar day.                                                       *)
(***************************************************************************)
EXTENDS Integers, FiniteSets, Sequences, TLC

VARIABLES clientes, pedidos, repartos, precios,
          nextPedidoId, nextRepartoId, nextPrecioId,
          now, resp, pc, loc,
          categorias, productos, nextProductoId,
          usuarios, nextUsuarioId

vars == <<clientes, pedidos, repartos, precios,
          nextPedidoId, nextRepartoId, nextPrecioId, now, resp, pc, loc,
          categorias, productos, nextProductoId,
          usuarios, nextUsuarioId>>

store == <<clientes, pedidos, repartos, precios>>

\* The categories and products and the counter of the product ids
catalogo == <<categorias, productos, nextProductoId>>

\* The users and the counter of the user ids
cuentas == <<usuarios, nextUsuarioId>>

----------------------------------------------------------------------------
(* Bounds *)

MaxPedidos == 1
MaxRepartos == 2
MaxPrecios == 2
MaxDay == 1
MaxProductos == 2
MaxItems == 2
MaxCantidad == 2
MaxUsuarios == 2

----------------------------------------------------------------------------
(* Values *)

Null == -1

TicksPerDay == 2

Timestamps == 0 .. ((MaxDay + 1) * TicksPerDay - 1)

ClienteIds == {1, 2}

ClienteIdInputs == ClienteIds \cup {3}

Zonas == {"NORTE", "SUR"}

Estados == {"PENDIENTE", "ENTREGADO", "CANCELADO"}

Tipos == {"FABRICA", "MAYORISTA", "MINORISTA"}

CategoriaIds == {1, 2}

CategoriaIdInputs == CategoriaIds \cup {3}

PedidoIdInputs == 1 .. MaxPedidos

RepartoIdInputs == 1 .. MaxRepartos

PrecioIdInputs == 1 .. MaxPrecios

ProductoIdInputs == 1 .. MaxProductos

\* A note is null or a text; the texts are numbered
Observaciones == {Null, 1}

\* pedidoItemSchema: quantity and unit price are positive, and so is the
\* subtotal, which the request states on its own
Items ==
    [productoId : ProductoIdInputs, cantidad : 1 .. MaxCantidad,
     precio : 1 .. MaxCantidad, subtotal : 1 .. (MaxCantidad * MaxCantidad)]

\* pedidoSchema.items: at least one item
ItemLists == UNION {[1 .. n -> Items] : n \in 1 .. MaxItems}

\* A request body of Create Order with one item of product 1, quantity 1
\* and price 1, no note, and the given client, status and paid flag
UnItem(clienteId, estado, cobrado) ==
    [clienteId |-> clienteId, estado |-> estado, cobrado |-> cobrado,
     total |-> 1, observacion |-> Null,
     items |-> <<[productoId |-> 1, cantidad |-> 1, precio |-> 1,
                  subtotal |-> 1]>>]

FechaFinInputs == {Null, TicksPerDay}

UsuarioIdInputs == 1 .. MaxUsuarios

\* The e-mail addresses are numbered
Emails == {1, 2}

Procs == {1, 2}

NoSession == [role |-> "NONE", clienteId |-> Null]

Admin == [role |-> "ADMIN", clienteId |-> Null]

Sessions == {NoSession, Admin}
            \cup [role : {"USER"}, clienteId : ClienteIds \cup {Null}]

\* The sessions of the user handlers: session.user.id and the role the
\* user signed in with
SesionesDeUsuario ==
    [role : {"ADMIN", "USER"}, clienteId : {Null}, id : UsuarioIdInputs]

Response(op, status) == [op |-> op, status |-> status]

\* The bodies accepted by pedidoUpdateSchema: every field is optional; keys
\* holds the fields that are present, an absent field carries a fixed value.
PedidoUpdateBodies ==
    {b \in [keys : SUBSET {"estado", "cobrado", "observacion", "repartoId"},
            estado : Estados, cobrado : BOOLEAN,
            observacion : Observaciones,
            repartoId : RepartoIdInputs \cup {Null}] :
        /\ "estado" \notin b.keys => b.estado = "PENDIENTE"
        /\ "cobrado" \notin b.keys => b.cobrado = FALSE
        /\ "observacion" \notin b.keys => b.observacion = Null
        /\ "repartoId" \notin b.keys => b.repartoId = Null}

----------------------------------------------------------------------------
(* Dates *)

DayOf(t) == t \div TicksPerDay

\* setHours(0, 0, 0, 0)
StartOfDay(t) == DayOf(t) * TicksPerDay

\* setHours(23, 59, 59, 999)
EndOfDay(t) == DayOf(t) * TicksPerDay + (TicksPerDay - 1)

----------------------------------------------------------------------------
(* Table helpers *)

Insert(table, id, row) == table @@ (id :> row)

Remove(table, id) == [i \in DOMAIN table \ {id} |-> table[i]]

Empty == [i \in {} |-> Null]

----------------------------------------------------------------------------
(* Orders: src/src/app/api/pedidos/route.ts *)

\* A permission check that only asks whether the user has a client
PedidoDenegadoSinCliente(ses, clienteId) ==
    ses.role # "ADMIN" /\ ses.clienteId = Null

\* session.user.role !== 'ADMIN' && session.user.clienteId !== clienteId
PedidoDenegado(ses, clienteId) ==
    ses.role # "ADMIN" /\ ses.clienteId # clienteId

\* where { fecha >= fechaActual, zona, estado: true }
RepartosProximos(zona) ==
    {r \in DOMAIN repartos :
        /\ repartos[r].fecha >= now
        /\ repartos[r].zona = zona
        /\ repartos[r].estado}

\* findFirst ... orderBy fecha asc: a row of least fecha, Null when none
ProximoReparto(zona) ==
    IF RepartosProximos(zona) = {} THEN {Null}
    ELSE {r \in RepartosProximos(zona) :
            \A q \in RepartosProximos(zona) :
                repartos[r].fecha <= repartos[q].fecha}

\* The foreign key of an order item on its product: the store refuses a
\* row that references no product
ProductosExisten(items) ==
    \A i \in DOMAIN items : items[i].productoId \in DOMAIN productos

PedidoPOST(ses, body) ==
    /\ UNCHANGED <<clientes, repartos, precios, nextRepartoId, nextPrecioId,
                   now, catalogo, cuentas, pc, loc>>
    /\ IF ses.role = "NONE"
       THEN /\ resp' = Response("PedidoPOST", 401)
            /\ UNCHANGED <<pedidos, nextPedidoId>>
       ELSE IF PedidoDenegado(ses, body.clienteId)
       THEN /\ resp' = Response("PedidoPOST", 403)
            /\ UNCHANGED <<pedidos, nextPedidoId>>
       ELSE IF body.clienteId \notin DOMAIN clientes
       THEN /\ resp' = Response("PedidoPOST", 400)
            /\ UNCHANGED <<pedidos, nextPedidoId>>
       ELSE IF ~ProductosExisten(body.items)
       THEN /\ resp' = Response("PedidoPOST", 500)
            /\ UNCHANGED <<pedidos, nextPedidoId>>
       ELSE /\ nextPedidoId <= MaxPedidos
            /\ \E r \in ProximoReparto(clientes[body.clienteId].zona) :
                 pedidos' = Insert(pedidos, nextPedidoId,
                                   [clienteId |-> body.clienteId,
                                    estado |-> body.estado,
                                    cobrado |-> body.cobrado,
                                    total |-> body.total,
                                    observacion |-> body.observacion,
                                    repartoId |-> r,
                                    items |-> body.items])
            /\ nextPedidoId' = nextPedidoId + 1
            /\ resp' = Response("PedidoPOST", 201)

PedidoGET(ses, id) ==
    /\ UNCHANGED <<store, nextPedidoId, nextRepartoId, nextPrecioId, now,
                   catalogo, cuentas, pc, loc>>
    /\ resp' = Response("PedidoGET",
                        IF ses.role = "NONE" THEN 401
                        ELSE IF id \notin DOMAIN pedidos THEN 404
                        ELSE IF PedidoDenegado(ses, pedidos[id].clienteId)
                        THEN 403
                        ELSE 200)

\* An update that writes the status of the body even when it is absent, as
\* if the schema gave it the default of the creation schema
PedidoActualizadoConDefecto(p, body) ==
    [p EXCEPT
        !.estado = body.estado,
        !.cobrado = IF "cobrado" \in body.keys THEN body.cobrado ELSE @,
        !.observacion = IF "observacion" \in body.keys
                        THEN body.observacion ELSE @,
        !.repartoId = IF "repartoId" \in body.keys THEN body.repartoId ELSE @]

\* db.pedido.update({ data: validatedData }): absent fields keep their value
PedidoActualizado(p, body) ==
    [p EXCEPT
        !.estado = IF "estado" \in body.keys THEN body.estado ELSE @,
        !.cobrado = IF "cobrado" \in body.keys THEN body.cobrado ELSE @,
        !.observacion = IF "observacion" \in body.keys
                        THEN body.observacion ELSE @,
        !.repartoId = IF "repartoId" \in body.keys THEN body.repartoId ELSE @]

\* A round check that forgets to compare the zones
RepartoInexistente(p, body) ==
    /\ "repartoId" \in body.keys
    /\ body.repartoId # Null
    /\ body.repartoId \notin DOMAIN repartos

\* if (validatedData.repartoId): the round is missing or of another zone
\* than the client of the order
RepartoInvalido(p, body) ==
    /\ "repartoId" \in body.keys
    /\ body.repartoId # Null
    /\ \/ body.repartoId \notin DOMAIN repartos
       \/ repartos[body.repartoId].zona # clientes[p.clienteId].zona

PedidoPUT(ses, id, body) ==
    /\ UNCHANGED <<clientes, repartos, precios, nextPedidoId, nextRepartoId,
                   nextPrecioId, now, catalogo, cuentas, pc, loc>>
    /\ IF ses.role = "NONE"
       THEN /\ resp' = Response("PedidoPUT", 401)
            /\ UNCHANGED pedidos
       ELSE IF id \notin DOMAIN pedidos
       THEN /\ resp' = Response("PedidoPUT", 404)
            /\ UNCHANGED pedidos
       ELSE IF PedidoDenegado(ses, pedidos[id].clienteId)
       THEN /\ resp' = Response("PedidoPUT", 403)
            /\ UNCHANGED pedidos
       ELSE IF RepartoInvalido(pedidos[id], body)
       THEN /\ resp' = Response("PedidoPUT", 400)
            /\ UNCHANGED pedidos
       ELSE /\ pedidos' = [pedidos EXCEPT
                              ![id] = PedidoActualizado(pedidos[id], body)]
            /\ resp' = Response("PedidoPUT", 200)

\* The fields of pedidoUpdateSchema
CamposDePedido == {"estado", "cobrado", "observacion", "repartoId"}

\* pedidoUpdateSchema.parse(body): a key the schema does not name is dropped
Validado(raw) ==
    [keys |-> raw.keys \cap CamposDePedido, estado |-> raw.estado,
     cobrado |-> raw.cobrado, observacion |-> raw.observacion,
     repartoId |-> raw.repartoId]

\* The body the order page sends to mark an order paid: the page reads and
\* writes the field pagado, which no order row has, so !pedido.pagado is true
CuerpoPagado ==
    [keys |-> {"pagado"}, pagado |-> TRUE, estado |-> "PENDIENTE",
     cobrado |-> FALSE, observacion |-> Null, repartoId |-> Null]

\* handleMarcarPagado of the order page: PUT /api/pedidos/[id]
handleMarcarPagado(ses, id) == PedidoPUT(ses, id, Validado(CuerpoPagado))

\* A guard that lets pending orders be cancelled and no others
NoPendiente(p) == p.estado # "PENDIENTE"

\* A delivered-order guard that tests the wrong status
YaCancelado(p) == p.estado = "CANCELADO"

\* pedidoExistente.estado === 'ENTREGADO'
YaEntregado(p) == p.estado = "ENTREGADO"

\* A cancellation that writes the status before it looks at the owner
PedidoDELETETardio(ses, id) ==
    /\ UNCHANGED <<clientes, repartos, precios, nextPedidoId, nextRepartoId,
                   nextPrecioId, now, catalogo, cuentas, pc, loc>>
    /\ IF ses.role = "NONE"
       THEN /\ resp' = Response("PedidoDELETE", 401)
            /\ UNCHANGED pedidos
       ELSE IF id \notin DOMAIN pedidos
       THEN /\ resp' = Response("PedidoDELETE", 404)
            /\ UNCHANGED pedidos
       ELSE IF YaEntregado(pedidos[id])
       THEN /\ resp' = Response("PedidoDELETE", 400)
            /\ UNCHANGED pedidos
       ELSE /\ pedidos' = [pedidos EXCEPT ![id].estado = "CANCELADO"]
            /\ resp' = Response("PedidoDELETE",
                                IF PedidoDenegado(ses, pedidos[id].clienteId)
                                THEN 403 ELSE 200)

PedidoDELETE(ses, id) ==
    /\ UNCHANGED <<clientes, repartos, precios, nextPedidoId, nextRepartoId,
                   nextPrecioId, now, catalogo, cuentas, pc, loc>>
    /\ IF ses.role = "NONE"
       THEN /\ resp' = Response("PedidoDELETE", 401)
            /\ UNCHANGED pedidos
       ELSE IF id \notin DOMAIN pedidos
       THEN /\ resp' = Response("PedidoDELETE", 404)
            /\ UNCHANGED pedidos
       ELSE IF PedidoDenegado(ses, pedidos[id].clienteId)
       THEN /\ resp' = Response("PedidoDELETE", 403)
            /\ UNCHANGED pedidos
       ELSE IF YaEntregado(pedidos[id])
       THEN /\ resp' = Response("PedidoDELETE", 400)
            /\ UNCHANGED pedidos
       ELSE /\ pedidos' = [pedidos EXCEPT ![id].estado = "CANCELADO"]
            /\ resp' = Response("PedidoDELETE", 200)

----------------------------------------------------------------------------
(* Delivery rounds: src/src/app/api/repartos *)

\* A duplicate check on the exact instant instead of the whole day
RepartoExistenteMismoInstante(rs, fecha, zona, self) ==
    \E r \in DOMAIN rs :
        /\ r # self
        /\ rs[r].zona = zona
        /\ rs[r].fecha = fecha

\* findFirst where { zona, fecha within the day of fecha, id not self }
RepartoExistente(rs, fecha, zona, self) ==
    \E r \in DOMAIN rs :
        /\ r # self
        /\ rs[r].zona = zona
        /\ rs[r].fecha >= StartOfDay(fecha)
        /\ rs[r].fecha <= EndOfDay(fecha)

\* findMany where { zona } select id
ClientesEnZona(zona) == {c \in DOMAIN clientes : clientes[c].zona = zona}

\* An assignment scan that forgets the estado filter
AsignarSinEstado(ps, zona, id) ==
    [p \in DOMAIN ps |->
        IF /\ ps[p].clienteId \in ClientesEnZona(zona)
           /\ ps[p].repartoId = Null
        THEN [ps[p] EXCEPT !.repartoId = id]
        ELSE ps[p]]

\* updateMany where { clienteId in ids, repartoId: null, estado: PENDIENTE }
AsignarPendientes(ps, zona, id) ==
    [p \in DOMAIN ps |->
        IF /\ ps[p].clienteId \in ClientesEnZona(zona)
           /\ ps[p].repartoId = Null
           /\ ps[p].estado = "PENDIENTE"
        THEN [ps[p] EXCEPT !.repartoId = id]
        ELSE ps[p]]

\* An unlink on zone change that forgets the zone filter
DesasignarTodos(ps, zona, id) ==
    [p \in DOMAIN ps |->
        IF ps[p].repartoId = id
        THEN [ps[p] EXCEPT !.repartoId = Null]
        ELSE ps[p]]

\* updateMany where { repartoId: id, cliente: { zona: { not: zona } } }
DesasignarOtraZona(ps, zona, id) ==
    [p \in DOMAIN ps |->
        IF /\ ps[p].repartoId = id
           /\ clientes[ps[p].clienteId].zona # zona
        THEN [ps[p] EXCEPT !.repartoId = Null]
        ELSE ps[p]]

\* An unlink before deletion that frees the pending orders only
DesasignarPendientes(ps, id) ==
    [p \in DOMAIN ps |->
        IF ps[p].repartoId = id /\ ps[p].estado = "PENDIENTE"
        THEN [ps[p] EXCEPT !.repartoId = Null]
        ELSE ps[p]]

\* updateMany where { repartoId: id } data { repartoId: null }
Desasignar(ps, id) ==
    [p \in DOMAIN ps |->
        IF ps[p].repartoId = id
        THEN [ps[p] EXCEPT !.repartoId = Null]
        ELSE ps[p]]

\* A delivered-orders check that tests the wrong status
PedidosCancelados(id) ==
    \E p \in DOMAIN pedidos :
        pedidos[p].repartoId = id /\ pedidos[p].estado = "CANCELADO"

\* repartoExistente.pedidos.some(pedido => pedido.estado === 'ENTREGADO')
PedidosEntregados(id) ==
    \E p \in DOMAIN pedidos :
        pedidos[p].repartoId = id /\ pedidos[p].estado = "ENTREGADO"

\* GET /api/repartos: the list is returned to any session
RepartosGET(ses) ==
    /\ UNCHANGED <<store, nextPedidoId, nextRepartoId, nextPrecioId, now,
                   catalogo, cuentas, pc, loc>>
    /\ resp' = Response("RepartosGET", IF ses.role = "NONE" THEN 401 ELSE 200)

\* GET /api/repartos/[id]: the round and its orders, to any session
RepartoGET(ses, id) ==
    /\ UNCHANGED <<store, nextPedidoId, nextRepartoId, nextPrecioId, now,
                   catalogo, cuentas, pc, loc>>
    /\ resp' = Response("RepartoGET",
                        IF ses.role = "NONE" THEN 401
                        ELSE IF id \notin DOMAIN repartos THEN 404
                        ELSE 200)

RepartoPOST(ses, fecha, zona, estado) ==
    /\ UNCHANGED <<clientes, precios, nextPedidoId, nextPrecioId, now,
                   catalogo, cuentas, pc, loc>>
    /\ IF ses.role # "ADMIN"
       THEN /\ resp' = Response("RepartoPOST", 401)
            /\ UNCHANGED <<pedidos, repartos, nextRepartoId>>
       ELSE IF RepartoExistente(repartos, fecha, zona, Null)
       THEN /\ resp' = Response("RepartoPOST", 400)
            /\ UNCHANGED <<pedidos, repartos, nextRepartoId>>
       ELSE /\ nextRepartoId <= MaxRepartos
            /\ repartos' = Insert(repartos, nextRepartoId,
                                  [fecha |-> fecha, zona |-> zona,
                                   estado |-> estado])
            /\ pedidos' = AsignarPendientes(pedidos, zona, nextRepartoId)
            /\ nextRepartoId' = nextRepartoId + 1
            /\ resp' = Response("RepartoPOST", 201)

RepartoPUT(ses, id, fecha, zona, estado) ==
    /\ UNCHANGED <<clientes, precios, nextPedidoId, nextRepartoId,
                   nextPrecioId, now, catalogo, cuentas, pc, loc>>
    /\ IF ses.role # "ADMIN"
       THEN /\ resp' = Response("RepartoPUT", 401)
            /\ UNCHANGED <<pedidos, repartos>>
       ELSE IF id \notin DOMAIN repartos
       THEN /\ resp' = Response("RepartoPUT", 404)
            /\ UNCHANGED <<pedidos, repartos>>
       ELSE IF /\ \/ DayOf(fecha) # DayOf(repartos[id].fecha)
                  \/ zona # repartos[id].zona
               /\ RepartoExistente(repartos, fecha, zona, id)
       THEN /\ resp' = Response("RepartoPUT", 400)
            /\ UNCHANGED <<pedidos, repartos>>
       ELSE /\ repartos' = [repartos EXCEPT
                              ![id] = [fecha |-> fecha, zona |-> zona,
                                       estado |-> estado]]
            /\ pedidos' =
                 IF zona # repartos[id].zona
                 THEN AsignarPendientes(
                          DesasignarOtraZona(pedidos, zona, id), zona, id)
                 ELSE pedidos
            /\ resp' = Response("RepartoPUT", 200)

RepartoDELETE(ses, id) ==
    /\ UNCHANGED <<clientes, precios, nextPedidoId, nextRepartoId,
                   nextPrecioId, now, catalogo, cuentas, pc, loc>>
    /\ IF ses.role # "ADMIN"
       THEN /\ resp' = Response("RepartoDELETE", 401)
            /\ UNCHANGED <<pedidos, repartos>>
       ELSE IF id \notin DOMAIN repartos
       THEN /\ resp' = Response("RepartoDELETE", 404)
            /\ UNCHANGED <<pedidos, repartos>>
       ELSE IF PedidosEntregados(id)
       THEN /\ resp' = Response("RepartoDELETE", 400)
            /\ UNCHANGED <<pedidos, repartos>>
       ELSE /\ pedidos' = Desasignar(pedidos, id)
            /\ repartos' = Remove(repartos, id)
            /\ resp' = Response("RepartoDELETE", 200)

----------------------------------------------------------------------------
(* Clients: src/src/app/api/clientes/[id]/route.ts *)

\* GET /api/clientes: the list, to an administrator
ClientesGET(ses) ==
    /\ UNCHANGED <<store, nextPedidoId, nextRepartoId, nextPrecioId, now,
                   catalogo, cuentas, pc, loc>>
    /\ resp' = Response("ClientesGET", IF ses.role # "ADMIN" THEN 401 ELSE 200)

\* GET /api/clientes/[id]: the client, to any session
ClienteGET(ses, id) ==
    /\ UNCHANGED <<store, nextPedidoId, nextRepartoId, nextPrecioId, now,
                   catalogo, cuentas, pc, loc>>
    /\ resp' = Response("ClienteGET",
                        IF ses.role = "NONE" THEN 401
                        ELSE IF id \notin DOMAIN clientes THEN 404
                        ELSE 200)

ClientePUT(ses, id, zona) ==
    /\ UNCHANGED <<pedidos, repartos, precios, nextPedidoId, nextRepartoId,
                   nextPrecioId, now, catalogo, cuentas, pc, loc>>
    /\ IF ses.role # "ADMIN"
       THEN /\ resp' = Response("ClientePUT", 401)
            /\ UNCHANGED clientes
       ELSE IF id \notin DOMAIN clientes
       THEN /\ resp' = Response("ClientePUT", 500)
            /\ UNCHANGED clientes
       ELSE /\ clientes' = [clientes EXCEPT ![id].zona = zona]
            /\ resp' = Response("ClientePUT", 200)

\* db.pedido.findFirst({ where: { clienteId: params.id } })
ClienteConPedidos(id) == \E p \in DOMAIN pedidos : pedidos[p].clienteId = id

ClienteDELETE(ses, id) ==
    /\ UNCHANGED <<pedidos, repartos, precios, nextPedidoId, nextRepartoId,
                   nextPrecioId, now, catalogo, cuentas, pc, loc>>
    /\ IF ses.role # "ADMIN"
       THEN /\ resp' = Response("ClienteDELETE", 401)
            /\ UNCHANGED clientes
       ELSE IF ClienteConPedidos(id)
       THEN /\ resp' = Response("ClienteDELETE", 400)
            /\ UNCHANGED clientes
       ELSE IF id \notin DOMAIN clientes
       THEN /\ resp' = Response("ClienteDELETE", 500)
            /\ UNCHANGED clientes
       ELSE /\ clientes' = Remove(clientes, id)
            /\ resp' = Response("ClienteDELETE", 200)

----------------------------------------------------------------------------
(* Categories and products: categorias/[id] and productos routes *)

\* A use check that forgets the prices of the category
CategoriaConProductos(id) ==
    \E p \in DOMAIN productos : productos[p].categoriaId = id

\* categoriaExistente.productos.length > 0 || ...precios.length > 0
CategoriaEnUso(id) ==
    \/ \E p \in DOMAIN productos : productos[p].categoriaId = id
    \/ \E p \in DOMAIN precios : precios[p].categoriaId = id

CategoriaDELETE(ses, id) ==
    /\ UNCHANGED <<store, nextPedidoId, nextRepartoId, nextPrecioId, now,
                   productos, nextProductoId, cuentas, pc, loc>>
    /\ IF ses.role # "ADMIN"
       THEN /\ resp' = Response("CategoriaDELETE", 401)
            /\ UNCHANGED categorias
       ELSE IF id \notin DOMAIN categorias
       THEN /\ resp' = Response("CategoriaDELETE", 404)
            /\ UNCHANGED categorias
       ELSE IF CategoriaEnUso(id)
       THEN /\ resp' = Response("CategoriaDELETE", 400)
            /\ UNCHANGED categorias
       ELSE /\ categorias' = Remove(categorias, id)
            /\ resp' = Response("CategoriaDELETE", 200)

ProductoPOST(ses, categoriaId, activo) ==
    /\ UNCHANGED <<store, nextPedidoId, nextRepartoId, nextPrecioId, now,
                   categorias, cuentas, pc, loc>>
    /\ IF ses.role # "ADMIN"
       THEN /\ resp' = Response("ProductoPOST", 401)
            /\ UNCHANGED <<productos, nextProductoId>>
       ELSE IF categoriaId \notin DOMAIN categorias
       THEN /\ resp' = Response("ProductoPOST", 400)
            /\ UNCHANGED <<productos, nextProductoId>>
       ELSE /\ nextProductoId <= MaxProductos
            /\ productos' = Insert(productos, nextProductoId,
                                   [categoriaId |-> categoriaId,
                                    activo |-> activo])
            /\ nextProductoId' = nextProductoId + 1
            /\ resp' = Response("ProductoPOST", 201)

ProductoPUT(ses, id, categoriaId, activo) ==
    /\ UNCHANGED <<store, nextPedidoId, nextRepartoId, nextPrecioId, now,
                   categorias, nextProductoId, cuentas, pc, loc>>
    /\ IF ses.role # "ADMIN"
       THEN /\ resp' = Response("ProductoPUT", 401)
            /\ UNCHANGED productos
       ELSE IF id \notin DOMAIN productos
       THEN /\ resp' = Response("ProductoPUT", 404)
            /\ UNCHANGED productos
       ELSE IF categoriaId \notin DOMAIN categorias
       THEN /\ resp' = Response("ProductoPUT", 400)
            /\ UNCHANGED productos
       ELSE /\ productos' = [productos EXCEPT ![id] =
                                [categoriaId |-> categoriaId,
                                 activo |-> activo]]
            /\ resp' = Response("ProductoPUT", 200)

\* db.pedidoItem.findFirst({ where: { productoId: id } })
ProductoEnPedidos(id) ==
    \E p \in DOMAIN pedidos :
        \E i \in DOMAIN pedidos[p].items :
            pedidos[p].items[i].productoId = id

ProductoDELETE(ses, id) ==
    /\ UNCHANGED <<store, nextPedidoId, nextRepartoId, nextPrecioId, now,
                   categorias, nextProductoId, cuentas, pc, loc>>
    /\ IF ses.role # "ADMIN"
       THEN /\ resp' = Response("ProductoDELETE", 401)
            /\ UNCHANGED productos
       ELSE IF id \notin DOMAIN productos
       THEN /\ resp' = Response("ProductoDELETE", 404)
            /\ UNCHANGED productos
       ELSE IF ProductoEnPedidos(id)
       THEN /\ resp' = Response("ProductoDELETE", 400)
            /\ UNCHANGED productos
       ELSE /\ productos' = Remove(productos, id)
            /\ resp' = Response("ProductoDELETE", 200)

----------------------------------------------------------------------------
(* Users: src/src/app/api/usuarios *)

\* db.user.findUnique({ where: { email } })
EmailEnUso(email) ==
    \E u \in DOMAIN usuarios : usuarios[u].email = email

\* if (validatedData.clienteId) ... findUnique: a client is named and missing
ClienteInexistente(clienteId) ==
    clienteId # Null /\ clienteId \notin DOMAIN clientes

UsuarioGET(ses, id) ==
    /\ UNCHANGED <<store, nextPedidoId, nextRepartoId, nextPrecioId, now,
                   catalogo, cuentas, pc, loc>>
    /\ resp' = Response("UsuarioGET",
                        IF ses.role # "ADMIN" THEN 401
                        ELSE IF id \notin DOMAIN usuarios THEN 404
                        ELSE 200)

UsuarioPOST(ses, email, role, clienteId) ==
    /\ UNCHANGED <<store, nextPedidoId, nextRepartoId, nextPrecioId, now,
                   catalogo, pc, loc>>
    /\ IF ses.role # "ADMIN"
       THEN /\ resp' = Response("UsuarioPOST", 401)
            /\ UNCHANGED cuentas
       ELSE IF EmailEnUso(email) \/ ClienteInexistente(clienteId)
       THEN /\ resp' = Response("UsuarioPOST", 400)
            /\ UNCHANGED cuentas
       ELSE /\ nextUsuarioId <= MaxUsuarios
            /\ usuarios' = Insert(usuarios, nextUsuarioId,
                                  [email |-> email, role |-> role,
                                   clienteId |-> clienteId])
            /\ nextUsuarioId' = nextUsuarioId + 1
            /\ resp' = Response("UsuarioPOST", 201)

UsuarioPUT(ses, id, email, role, clienteId) ==
    /\ UNCHANGED <<store, nextPedidoId, nextRepartoId, nextPrecioId, now,
                   catalogo, nextUsuarioId, pc, loc>>
    /\ IF ses.role # "ADMIN"
       THEN /\ resp' = Response("UsuarioPUT", 401)
            /\ UNCHANGED usuarios
       ELSE IF id \notin DOMAIN usuarios
       THEN /\ resp' = Response("UsuarioPUT", 404)
            /\ UNCHANGED usuarios
       ELSE IF \/ email # usuarios[id].email /\ EmailEnUso(email)
               \/ ClienteInexistente(clienteId)
       THEN /\ resp' = Response("UsuarioPUT", 400)
            /\ UNCHANGED usuarios
       ELSE /\ usuarios' = [usuarios EXCEPT
                              ![id] = [email |-> email, role |-> role,
                                       clienteId |-> clienteId]]
            /\ resp' = Response("UsuarioPUT", 200)

\* A self-deletion guard that protects the first user only
EsPrimero(ses, id) == id = 1

\* params.id === session.user.id
EsPropio(ses, id) == id = ses.id

UsuarioDELETE(ses, id) ==
    /\ UNCHANGED <<store, nextPedidoId, nextRepartoId, nextPrecioId, now,
                   catalogo, nextUsuarioId, pc, loc>>
    /\ IF ses.role # "ADMIN"
       THEN /\ resp' = Response("UsuarioDELETE", 401)
            /\ UNCHANGED usuarios
       ELSE IF id \notin DOMAIN usuarios
       THEN /\ resp' = Response("UsuarioDELETE", 404)
            /\ UNCHANGED usuarios
       ELSE IF EsPropio(ses, id)
       THEN /\ resp' = Response("UsuarioDELETE", 400)
            /\ UNCHANGED usuarios
       ELSE /\ usuarios' = Remove(usuarios, id)
            /\ resp' = Response("UsuarioDELETE", 200)

----------------------------------------------------------------------------
(* Prices: src/src/app/api/precios *)

\* A deactivation that forgets the tier
DesactivarCategoria(ps, categoriaId, tipo, self) ==
    [i \in DOMAIN ps |->
        IF /\ i # self
           /\ ps[i].categoriaId = categoriaId
           /\ ps[i].activo
        THEN [ps[i] EXCEPT !.activo = FALSE, !.fechaFin = now]
        ELSE ps[i]]

\* updateMany where { categoriaId, tipo, activo: true, id: { not: self } }
\*            data { activo: false, fechaFin: new Date() }
DesactivarAnteriores(ps, categoriaId, tipo, self) ==
    [i \in DOMAIN ps |->
        IF /\ i # self
           /\ ps[i].categoriaId = categoriaId
           /\ ps[i].tipo = tipo
           /\ ps[i].activo
        THEN [ps[i] EXCEPT !.activo = FALSE, !.fechaFin = now]
        ELSE ps[i]]

PrecioPOST(ses, tipo, activo, categoriaId, fechaFin) ==
    /\ UNCHANGED <<clientes, pedidos, repartos, nextPedidoId, nextRepartoId,
                   now, catalogo, cuentas, pc, loc>>
    /\ IF ses.role # "ADMIN"
       THEN /\ resp' = Response("PrecioPOST", 401)
            /\ UNCHANGED <<precios, nextPrecioId>>
       ELSE IF categoriaId \notin DOMAIN categorias
       THEN /\ resp' = Response("PrecioPOST", 400)
            /\ UNCHANGED <<precios, nextPrecioId>>
       ELSE /\ nextPrecioId <= MaxPrecios
            /\ precios' =
                 Insert(IF activo
                        THEN DesactivarAnteriores(precios, categoriaId,
                                                  tipo, Null)
                        ELSE precios,
                        nextPrecioId,
                        [categoriaId |-> categoriaId, tipo |-> tipo,
                         activo |-> activo, fechaFin |-> fechaFin])
            /\ nextPrecioId' = nextPrecioId + 1
            /\ resp' = Response("PrecioPOST", 201)

PrecioPUT(ses, id, tipo, activo, categoriaId, fechaFin) ==
    /\ UNCHANGED <<clientes, pedidos, repartos, nextPedidoId, nextRepartoId,
                   nextPrecioId, now, catalogo, cuentas, pc, loc>>
    /\ IF ses.role # "ADMIN"
       THEN /\ resp' = Response("PrecioPUT", 401)
            /\ UNCHANGED precios
       ELSE IF id \notin DOMAIN precios
       THEN /\ resp' = Response("PrecioPUT", 404)
            /\ UNCHANGED precios
       ELSE IF categoriaId \notin DOMAIN categorias
       THEN /\ resp' = Response("PrecioPUT", 400)
            /\ UNCHANGED precios
       ELSE /\ precios' =
                 [(IF /\ activo
                      /\ \/ ~precios[id].activo
                         \/ precios[id].categoriaId # categoriaId
                   THEN DesactivarAnteriores(precios, categoriaId, tipo, id)
                   ELSE precios)
                  EXCEPT ![id] = [categoriaId |-> categoriaId,
                                  tipo |-> tipo, activo |-> activo,
                                  fechaFin |-> fechaFin]]
            /\ resp' = Response("PrecioPUT", 200)

----------------------------------------------------------------------------
(* The clock read by new Date() *)

Tick ==
    /\ now < (MaxDay + 1) * TicksPerDay - 1
    /\ now' = now + 1
    /\ UNCHANGED <<clientes, pedidos, repartos, precios, nextPedidoId,
                   nextRepartoId, nextPrecioId, catalogo, cuentas, resp, pc,
                   loc>>

----------------------------------------------------------------------------
(* A store an administrator has filled: two clients, two categories and    *)
(* one product exist; there is no order, no round and no price yet.       *)

Init ==
    /\ clientes = (1 :> [zona |-> "NORTE"]) @@ (2 :> [zona |-> "SUR"])
    /\ pedidos = Empty
    /\ repartos = Empty
    /\ precios = Empty
    /\ nextPedidoId = 1
    /\ nextRepartoId = 1
    /\ nextPrecioId = 1
    /\ now = 0
    /\ resp = Response("none", 0)
    /\ pc = [p \in Procs |-> "idle"]
    /\ loc = [p \in Procs |-> [status |-> 0]]
    /\ categorias = [c \in CategoriaIds |-> [nombre |-> c]]
    /\ productos = (1 :> [categoriaId |-> 1, activo |-> TRUE])
    /\ nextProductoId = 2
    /\ usuarios = (1 :> [email |-> 1, role |-> "ADMIN", clienteId |-> Null])
    /\ nextUsuarioId = 2

\* The dates a date-only form field yields for today and tomorrow
HoyYManana == {0, TicksPerDay}

\* Today and tomorrow at every time of day
FechasConHora == 0 .. (2 * TicksPerDay - 1)

\* Update bodies that carry the status alone
SoloEstado == {b \in PedidoUpdateBodies : b.keys = {"estado"}}

\* Update bodies that link a round, or deliver, mark paid and write a note,
\* or do both
Ediciones ==
    {b \in PedidoUpdateBodies :
        /\ b.keys \in {{"repartoId"}, {"estado", "cobrado", "observacion"},
                       {"estado", "cobrado", "observacion", "repartoId"}}
        /\ "estado" \in b.keys => b.estado = "ENTREGADO"
        /\ "cobrado" \in b.keys => b.cobrado
        /\ "observacion" \in b.keys => b.observacion # Null}

\* The sessions of an administrator and of the user of client 1
AdminYUsuario == {Admin, [role |-> "USER", clienteId |-> 1]}

\* Update bodies that carry the paid flag alone
SoloCobrado == {b \in PedidoUpdateBodies : b.keys = {"cobrado"}}

\* Update bodies that mark an order delivered
Entrega == {b \in SoloEstado : b.estado = "ENTREGADO"}

\* Update bodies that carry the round link alone
SoloReparto == {b \in PedidoUpdateBodies : b.keys = {"repartoId"}}

----------------
(* SpecPedidos: the life of an order, requests of every kind of session,  *)
(* handled one at a time; an administrator creates the rounds.            *)

NextPedidos ==
    \/ \E ses \in Sessions, c \in ClienteIdInputs, e \in Estados,
          k \in BOOLEAN : PedidoPOST(ses, UnItem(c, e, k))
    \/ \E ses \in Sessions, id \in PedidoIdInputs,
          body \in PedidoUpdateBodies : PedidoPUT(ses, id, body)
    \/ \E ses \in Sessions, id \in PedidoIdInputs : PedidoDELETE(ses, id)
    \/ \E z \in Zonas : RepartoPOST(Admin, TicksPerDay, z, TRUE)

SpecPedidos == Init /\ [][NextPedidos]_vars

----------------------------------------------------------------------------
(* SpecRepartos: an administrator creates and deletes rounds while orders *)
(* are created in any status and change status, one request at a time.   *)
(* No handler of a round reads the clock, the paid flag or the active    *)
(* flag of a round.                                                       *)

NextRepartos ==
    \/ \E c \in ClienteIds, e \in Estados :
          PedidoPOST(Admin, UnItem(c, e, FALSE))
    \/ \E id \in PedidoIdInputs, body \in SoloEstado :
          PedidoPUT(Admin, id, body)
    \/ \E f \in HoyYManana, z \in Zonas : RepartoPOST(Admin, f, z, TRUE)
    \/ \E id \in RepartoIdInputs : RepartoDELETE(Admin, id)

SpecRepartos == Init /\ [][NextRepartos]_vars

----------------------------------------------------------------------------
(* SpecZona: an administrator creates rounds, moves them to another zone  *)
(* or day and moves clients to another zone, while orders are created in  *)
(* any status, one request at a time.                                     *)

NextZona ==
    \/ \E c \in ClienteIds, e \in Estados :
          PedidoPOST(Admin, UnItem(c, e, FALSE))
    \/ \E f \in HoyYManana, z \in Zonas : RepartoPOST(Admin, f, z, TRUE)
    \/ \E id \in RepartoIdInputs, f \in HoyYManana, z \in Zonas :
          RepartoPUT(Admin, id, f, z, TRUE)
    \/ \E id \in ClienteIds, z \in Zonas : ClientePUT(Admin, id, z)

SpecZona == Init /\ [][NextZona]_vars

----------------------------------------------------------------------------
(* SpecEntregados: pending orders are created and delivered while an      *)
(* administrator creates rounds, moves them to another zone or day and    *)
(* deletes them, one request at a time.                                   *)

NextEntregados ==
    \/ \E c \in ClienteIds : PedidoPOST(Admin, UnItem(c, "PENDIENTE", FALSE))
    \/ \E id \in PedidoIdInputs, body \in Entrega :
          PedidoPUT(Admin, id, body)
    \/ \E f \in HoyYManana, z \in Zonas : RepartoPOST(Admin, f, z, TRUE)
    \/ \E id \in RepartoIdInputs, f \in HoyYManana, z \in Zonas :
          RepartoPUT(Admin, id, f, z, TRUE)
    \/ \E id \in RepartoIdInputs : RepartoDELETE(Admin, id)

SpecEntregados == Init /\ [][NextEntregados]_vars

----------------------------------------------------------------------------
(* SpecVinculos: orders are created in any status, paid or not, linked by *)
(* hand and unlinked, while an administrator creates and deletes rounds,  *)
(* one request at a time.                                                 *)

NextVinculos ==
    \/ \E c \in ClienteIds, e \in Estados, k \in BOOLEAN :
          PedidoPOST(Admin, UnItem(c, e, k))
    \/ \E id \in PedidoIdInputs, body \in SoloReparto :
          PedidoPUT(Admin, id, body)
    \/ \E z \in Zonas : RepartoPOST(Admin, TicksPerDay, z, TRUE)
    \/ \E id \in RepartoIdInputs : RepartoDELETE(Admin, id)

SpecVinculos == Init /\ [][NextVinculos]_vars

----------------------------------------------------------------------------
(* SpecEdicion: pending orders are created and then edited by an          *)
(* administrator or by the user of their client, while rounds are created *)
(* for tomorrow, one request at a time.                                   *)

NextEdicion ==
    \/ \E c \in ClienteIds : PedidoPOST(Admin, UnItem(c, "PENDIENTE", FALSE))
    \/ \E ses \in AdminYUsuario, id \in PedidoIdInputs, body \in Ediciones :
          PedidoPUT(ses, id, body)
    \/ \E z \in Zonas : RepartoPOST(Admin, TicksPerDay, z, TRUE)

SpecEdicion == Init /\ [][NextEdicion]_vars

----------------------------------------------------------------------------
(* SpecPermisos: every kind of session creates, reads, updates and        *)
(* cancels orders, one request at a time.                                 *)

NextPermisos ==
    \/ \E ses \in Sessions, c \in ClienteIdInputs, k \in BOOLEAN :
          PedidoPOST(ses, UnItem(c, "PENDIENTE", k))
    \/ \E ses \in Sessions, id \in PedidoIdInputs : PedidoGET(ses, id)
    \/ \E ses \in Sessions, id \in PedidoIdInputs, body \in SoloEstado :
          PedidoPUT(ses, id, body)
    \/ \E ses \in Sessions, id \in PedidoIdInputs : PedidoDELETE(ses, id)

SpecPermisos == Init /\ [][NextPermisos]_vars

----------------------------------------------------------------------------
(* SpecDenegados: an administrator creates orders, rounds, products,      *)
(* prices and users; every handler that writes receives requests without  *)
(* a session, from the user of client 1 and from a user without client.   *)

NoAdministradores ==
    {NoSession, [role |-> "USER", clienteId |-> 1],
     [role |-> "USER", clienteId |-> Null]}

NextDenegados ==
    \/ \E c \in ClienteIds : PedidoPOST(Admin, UnItem(c, "PENDIENTE", FALSE))
    \/ \E z \in Zonas : RepartoPOST(Admin, 0, z, TRUE)
    \/ ProductoPOST(Admin, 1, TRUE)
    \/ PrecioPOST(Admin, "FABRICA", TRUE, 1, Null)
    \/ UsuarioPOST(Admin, 2, "USER", 1)
    \/ \E ses \in NoAdministradores :
        \/ \E c \in ClienteIds :
              PedidoPOST(ses, UnItem(c, "PENDIENTE", FALSE))
        \/ \E id \in PedidoIdInputs, b \in Entrega : PedidoPUT(ses, id, b)
        \/ \E id \in PedidoIdInputs : PedidoDELETE(ses, id)
        \/ RepartoPOST(ses, 0, "NORTE", TRUE)
        \/ \E id \in RepartoIdInputs : RepartoPUT(ses, id, 0, "SUR", TRUE)
        \/ \E id \in RepartoIdInputs : RepartoDELETE(ses, id)
        \/ ClientePUT(ses, 1, "SUR")
        \/ ClienteDELETE(ses, 2)
        \/ CategoriaDELETE(ses, 2)
        \/ ProductoPOST(ses, 1, TRUE)
        \/ ProductoPUT(ses, 1, 1, FALSE)
        \/ ProductoDELETE(ses, 2)
        \/ PrecioPOST(ses, "FABRICA", TRUE, 1, Null)
        \/ \E id \in PrecioIdInputs :
              PrecioPUT(ses, id, "FABRICA", FALSE, 1, Null)
        \/ UsuarioPOST(ses, 2, "USER", Null)
        \/ UsuarioPUT(ses, 2, 2, "ADMIN", Null)
        \/ UsuarioDELETE(ses, 2)

SpecDenegados == Init /\ [][NextDenegados]_vars

----------------------------------------------------------------------------
(* SpecUsuarios: sessions of users 1 .. MaxUsuarios, as administrator or  *)
(* as plain user, read, create, update and delete users.                  *)

NextUsuarios ==
    \E ses \in SesionesDeUsuario :
        \/ \E id \in UsuarioIdInputs : UsuarioGET(ses, id)
        \/ \E e \in Emails, r \in {"ADMIN", "USER"},
              c \in {Null} \cup ClienteIdInputs :
              UsuarioPOST(ses, e, r, c)
        \/ \E id \in UsuarioIdInputs, e \in Emails, r \in {"ADMIN", "USER"} :
              UsuarioPUT(ses, id, e, r, Null)
        \/ \E id \in UsuarioIdInputs : UsuarioDELETE(ses, id)

SpecUsuarios == Init /\ [][NextUsuarios]_vars

----------------------------------------------------------------------------
(* SpecReferencias: an administrator creates products, prices and orders  *)
(* of one item and deletes clients, categories and products, one request  *)
(* at a time.                                                             *)

\* A request body of Create Order with one item of the given product
DeProducto(clienteId, productoId) ==
    [UnItem(clienteId, "PENDIENTE", FALSE) EXCEPT
        !.items = <<[productoId |-> productoId, cantidad |-> 1,
                     precio |-> 1, subtotal |-> 1]>>]

NextReferencias ==
    \/ \E c \in ClienteIds, p \in ProductoIdInputs :
          PedidoPOST(Admin, DeProducto(c, p))
    \/ \E c \in CategoriaIdInputs : ProductoPOST(Admin, c, TRUE)
    \/ \E c \in CategoriaIds : PrecioPOST(Admin, "FABRICA", TRUE, c, Null)
    \/ \E id \in DOMAIN productos, c \in CategoriaIdInputs :
          ProductoPUT(Admin, id, c, TRUE)
    \/ \E id \in ClienteIdInputs : ClienteDELETE(Admin, id)
    \/ \E id \in CategoriaIdInputs : CategoriaDELETE(Admin, id)
    \/ \E id \in ProductoIdInputs : ProductoDELETE(Admin, id)

SpecReferencias == Init /\ [][NextReferencias]_vars

----------------------------------------------------------------------------
(* SpecTotales: an administrator creates orders of client 1 with any      *)
(* items and any stated total.                                            *)

Totales == 1 .. (MaxItems * MaxCantidad * MaxCantidad)

\* The lists of items of product 1
ItemsDeUnProducto ==
    {items \in ItemLists : \A i \in DOMAIN items : items[i].productoId = 1}

NextTotales ==
    \E items \in ItemsDeUnProducto, total \in Totales :
       PedidoPOST(Admin, [UnItem(1, "PENDIENTE", FALSE) EXCEPT
                             !.items = items, !.total = total])

SpecTotales == Init /\ [][NextTotales]_vars

----------------------------------------------------------------------------
(* SpecCobro: orders are created pending and unpaid; an administrator or  *)
(* the user of client 1 marks them paid or unpaid, delivers them and      *)
(* cancels them, through the API or with the button of the order page,    *)
(* one request at a time.                                                 *)

NextCobro ==
    \/ \E c \in ClienteIds : PedidoPOST(Admin, UnItem(c, "PENDIENTE", FALSE))
    \/ \E ses \in AdminYUsuario, id \in PedidoIdInputs,
          body \in SoloCobrado \cup Entrega : PedidoPUT(ses, id, body)
    \/ \E ses \in AdminYUsuario, id \in PedidoIdInputs :
          handleMarcarPagado(ses, id)
    \/ \E ses \in AdminYUsuario, id \in PedidoIdInputs :
          PedidoDELETE(ses, id)
    \/ \E z \in Zonas : RepartoPOST(Admin, TicksPerDay, z, TRUE)

SpecCobro == Init /\ [][NextCobro]_vars

----------------------------------------------------------------------------
(* SpecSoloAdmin: every kind of session lists, reads, creates, updates    *)
(* and deletes clients and rounds, one request at a time.                 *)

NextSoloAdmin ==
    \/ \E ses \in Sessions : ClientesGET(ses)
    \/ \E ses \in Sessions, id \in ClienteIdInputs : ClienteGET(ses, id)
    \/ \E ses \in Sessions, id \in ClienteIdInputs, z \in Zonas :
          ClientePUT(ses, id, z)
    \/ \E ses \in Sessions : RepartosGET(ses)
    \/ \E ses \in Sessions, id \in RepartoIdInputs : RepartoGET(ses, id)
    \/ \E ses \in Sessions, f \in HoyYManana, z \in Zonas :
          RepartoPOST(ses, f, z, TRUE)
    \/ \E ses \in Sessions, id \in RepartoIdInputs : RepartoDELETE(ses, id)

SpecSoloAdmin == Init /\ [][NextSoloAdmin]_vars

----------------------------------------------------------------------------
(* SpecUnicidad: rounds created, updated and deleted at any time of any   *)
(* day, one request at a time, with pending orders being created.         *)

NextUnicidad ==
    \/ \E c \in ClienteIds : PedidoPOST(Admin, UnItem(c, "PENDIENTE", FALSE))
    \/ \E f \in FechasConHora, z \in Zonas : RepartoPOST(Admin, f, z, TRUE)
    \/ \E id \in RepartoIdInputs, f \in FechasConHora, z \in Zonas :
          RepartoPUT(Admin, id, f, z, TRUE)
    \/ \E id \in RepartoIdInputs : RepartoDELETE(Admin, id)

SpecUnicidad == Init /\ [][NextUnicidad]_vars

----------------
(* SpecAsignacion: orders created while rounds are created and the clock  *)
(* advances.                                                              *)

NextAsignacion ==
    \/ \E id \in ClienteIds, z \in Zonas : ClientePUT(Admin, id, z)
    \/ \E c \in ClienteIds : PedidoPOST(Admin, UnItem(c, "PENDIENTE", FALSE))
    \/ \E f \in Timestamps, z \in Zonas, e \in BOOLEAN :
          RepartoPOST(Admin, f, z, e)
    \/ Tick

SpecAsignacion == Init /\ [][NextAsignacion]_vars

----------------------------------------------------------------------------
(* SpecPrecios: prices created and updated, one request at a time *)

NextPrecios ==
    \/ \E ses \in {NoSession, Admin}, t \in Tipos, a \in BOOLEAN,
          c \in CategoriaIdInputs, ff \in FechaFinInputs :
          PrecioPOST(ses, t, a, c, ff)
    \/ \E ses \in {NoSession, Admin}, id \in PrecioIdInputs, t \in Tipos,
          a \in BOOLEAN, c \in CategoriaIdInputs, ff \in FechaFinInputs :
          PrecioPUT(ses, id, t, a, c, ff)

SpecPrecios == Init /\ [][NextPrecios]_vars

----------------------------------------------------------------------------
(* SpecAltaPrecios: an administrator creates prices of two tiers, active  *)
(* or not, and activates existing ones, while the clock advances, one     *)
(* request at a time.                                                     *)

DosTipos == {"FABRICA", "MINORISTA"}

NextAltaPrecios ==
    \/ \E t \in DosTipos, a \in BOOLEAN, c \in CategoriaIdInputs :
          PrecioPOST(Admin, t, a, c, Null)
    \/ \E id \in PrecioIdInputs, t \in DosTipos, c \in CategoriaIds :
          PrecioPUT(Admin, id, t, TRUE, c, Null)
    \/ Tick

SpecAltaPrecios == Init /\ [][NextAltaPrecios]_vars

----------------------------------------------------------------------------
(* SpecPreciosRace: two Create Price requests of an administrator whose   *)
(* database statements interleave.  The handler awaits each statement and *)
(* opens no transaction, so another request runs between two statements.  *)

\* lines 59-83: session, body and category are checked; antes records the
\* prices as the request found them
PrecioPOSTInicio(p, tipo, activo, categoriaId, fechaFin) ==
    /\ pc[p] = "idle"
    /\ categoriaId \in DOMAIN categorias
    /\ loc' = [loc EXCEPT ![p] = [tipo |-> tipo, activo |-> activo,
                                  categoriaId |-> categoriaId,
                                  fechaFin |-> fechaFin, status |-> 0,
                                  antes |-> precios]]
    /\ pc' = [pc EXCEPT ![p] = IF activo THEN "desactivar" ELSE "crear"]
    /\ UNCHANGED <<clientes, pedidos, repartos, precios, nextPedidoId,
                   nextRepartoId, nextPrecioId, now, catalogo, cuentas, resp>>

\* lines 86-98: await db.precio.updateMany
PrecioPOSTDesactivar(p) ==
    /\ pc[p] = "desactivar"
    /\ precios' = DesactivarAnteriores(precios, loc[p].categoriaId,
                                       loc[p].tipo, Null)
    /\ pc' = [pc EXCEPT ![p] = "crear"]
    /\ UNCHANGED <<clientes, pedidos, repartos, nextPedidoId,
                   nextRepartoId, nextPrecioId, now, catalogo, cuentas, resp,
                   loc>>

\* lines 100-104: await db.precio.create and the response
PrecioPOSTCrear(p) ==
    /\ pc[p] = "crear"
    /\ nextPrecioId <= MaxPrecios
    /\ precios' = Insert(precios, nextPrecioId,
                         [categoriaId |-> loc[p].categoriaId,
                          tipo |-> loc[p].tipo,
                          activo |-> loc[p].activo,
                          fechaFin |-> loc[p].fechaFin])
    /\ nextPrecioId' = nextPrecioId + 1
    /\ loc' = [loc EXCEPT ![p].status = 201]
    /\ resp' = Response("PrecioPOST", 201)
    /\ pc' = [pc EXCEPT ![p] = "fin"]
    /\ UNCHANGED <<clientes, pedidos, repartos, nextPedidoId,
                   nextRepartoId, now, catalogo, cuentas>>

\* lines 100-118: await db.precio.create throws and the catch block
\* answers 500; nothing undoes the updateMany that ran before
PrecioPOSTFalla(p) ==
    /\ pc[p] = "crear"
    /\ loc' = [loc EXCEPT ![p].status = 500]
    /\ resp' = Response("PrecioPOST", 500)
    /\ pc' = [pc EXCEPT ![p] = "fin"]
    /\ UNCHANGED <<store, nextPedidoId, nextRepartoId, nextPrecioId, now,
                   catalogo, cuentas>>

NextPreciosRace ==
    \/ \E p \in Procs, t \in Tipos, a \in BOOLEAN, c \in CategoriaIds,
          ff \in FechaFinInputs : PrecioPOSTInicio(p, t, a, c, ff)
    \/ \E p \in Procs : PrecioPOSTDesactivar(p)
    \/ \E p \in Procs : PrecioPOSTCrear(p)

SpecPreciosRace == Init /\ [][NextPreciosRace]_vars

----------------------------------------------------------------------------
(* SpecFallos: Create Price requests of an administrator, one at a time,  *)
(* whose insert may fail.                                                 *)

NextFallos ==
    \/ \E p \in Procs, t \in DosTipos, a \in BOOLEAN :
          /\ \A q \in Procs : pc[q] \in {"idle", "fin"}
          /\ PrecioPOSTInicio(p, t, a, 1, Null)
    \/ \E p \in Procs : PrecioPOSTDesactivar(p)
    \/ \E p \in Procs : PrecioPOSTCrear(p)
    \/ \E p \in Procs : PrecioPOSTFalla(p)

SpecFallos == Init /\ [][NextFallos]_vars

----------------------------------------------------------------------------
(* SpecRepartosRace: two Create DeliveryRound requests of an              *)
(* administrator whose database statements interleave.                    *)

\* lines 79-96: session and body are checked
RepartoPOSTInicio(p, fecha, zona, estado) ==
    /\ pc[p] = "idle"
    /\ loc' = [loc EXCEPT ![p] = [fecha |-> fecha, zona |-> zona,
                                  estado |-> estado, id |-> Null,
                                  clienteIds |-> {}, status |-> 0]]
    /\ pc' = [pc EXCEPT ![p] = "buscar"]
    /\ UNCHANGED <<clientes, pedidos, repartos, precios, nextPedidoId,
                   nextRepartoId, nextPrecioId, now, catalogo, cuentas, resp>>

\* lines 98-113: await db.reparto.findFirst and the 400 answer
RepartoPOSTBuscar(p) ==
    /\ pc[p] = "buscar"
    /\ IF RepartoExistente(repartos, loc[p].fecha, loc[p].zona, Null)
       THEN /\ loc' = [loc EXCEPT ![p].status = 400]
            /\ resp' = Response("RepartoPOST", 400)
            /\ pc' = [pc EXCEPT ![p] = "fin"]
       ELSE /\ pc' = [pc EXCEPT ![p] = "crear"]
            /\ UNCHANGED <<loc, resp>>
    /\ UNCHANGED <<clientes, pedidos, repartos, precios, nextPedidoId,
                   nextRepartoId, nextPrecioId, now, catalogo, cuentas>>

\* lines 116-118: await db.reparto.create
RepartoPOSTCrear(p) ==
    /\ pc[p] = "crear"
    /\ nextRepartoId <= MaxRepartos
    /\ repartos' = Insert(repartos, nextRepartoId,
                          [fecha |-> loc[p].fecha, zona |-> loc[p].zona,
                           estado |-> loc[p].estado])
    /\ nextRepartoId' = nextRepartoId + 1
    /\ loc' = [loc EXCEPT ![p].id = nextRepartoId]
    /\ pc' = [pc EXCEPT ![p] = "clientes"]
    /\ UNCHANGED <<clientes, pedidos, precios, nextPedidoId, nextPrecioId,
                   now, catalogo, cuentas, resp>>

\* lines 122-131: await db.cliente.findMany
RepartoPOSTClientes(p) ==
    /\ pc[p] = "clientes"
    /\ loc' = [loc EXCEPT ![p].clienteIds = ClientesEnZona(loc[p].zona)]
    /\ pc' = [pc EXCEPT ![p] = "asignar"]
    /\ UNCHANGED <<clientes, pedidos, repartos, precios, nextPedidoId,
                   nextRepartoId, nextPrecioId, now, catalogo, cuentas, resp>>

\* lines 133-167: await db.pedido.updateMany and the response
RepartoPOSTAsignar(p) ==
    /\ pc[p] = "asignar"
    /\ pedidos' =
         [o \in DOMAIN pedidos |->
            IF /\ pedidos[o].clienteId \in loc[p].clienteIds
               /\ pedidos[o].repartoId = Null
               /\ pedidos[o].estado = "PENDIENTE"
            THEN [pedidos[o] EXCEPT !.repartoId = loc[p].id]
            ELSE pedidos[o]]
    /\ loc' = [loc EXCEPT ![p].status = 201]
    /\ resp' = Response("RepartoPOST", 201)
    /\ pc' = [pc EXCEPT ![p] = "fin"]
    /\ UNCHANGED <<clientes, repartos, precios, nextPedidoId,
                   nextRepartoId, nextPrecioId, now, catalogo, cuentas>>

NextRepartosRace ==
    \/ \E c \in ClienteIds : /\ \A p \in Procs : pc[p] = "idle"
                             /\ PedidoPOST(Admin, UnItem(c, "PENDIENTE", FALSE))
    \/ \E p \in Procs, f \in FechasConHora, z \in Zonas, e \in BOOLEAN :
          RepartoPOSTInicio(p, f, z, e)
    \/ \E p \in Procs : RepartoPOSTBuscar(p)
    \/ \E p \in Procs : RepartoPOSTCrear(p)
    \/ \E p \in Procs : RepartoPOSTClientes(p)
    \/ \E p \in Procs : RepartoPOSTAsignar(p)

SpecRepartosRace == Init /\ [][NextRepartosRace]_vars

----------------------------------------------------------------------------
(* SpecAltas: a Create Order request and Create DeliveryRound requests of *)
(* an administrator whose database statements interleave.                 *)

\* lines 83-115: session, body, owner and client are checked
PedidoPOSTInicio(p, body) ==
    /\ pc[p] = "idle"
    /\ body.clienteId \in DOMAIN clientes
    /\ ProductosExisten(body.items)
    /\ loc' = [loc EXCEPT ![p] = [body |-> body,
                                  zona |-> clientes[body.clienteId].zona,
                                  reparto |-> Null, id |-> Null,
                                  status |-> 0]]
    /\ pc' = [pc EXCEPT ![p] = "proximo"]
    /\ UNCHANGED <<clientes, pedidos, repartos, precios, nextPedidoId,
                   nextRepartoId, nextPrecioId, now, catalogo, cuentas, resp>>

\* lines 118-130: await db.reparto.findFirst
PedidoPOSTProximo(p) ==
    /\ pc[p] = "proximo"
    /\ \E r \in ProximoReparto(loc[p].zona) :
          loc' = [loc EXCEPT ![p].reparto = r]
    /\ pc' = [pc EXCEPT ![p] = "pedido"]
    /\ UNCHANGED <<clientes, pedidos, repartos, precios, nextPedidoId,
                   nextRepartoId, nextPrecioId, now, catalogo, cuentas, resp>>

\* lines 133-165: await db.pedido.create and the response
PedidoPOSTCrear(p) ==
    /\ pc[p] = "pedido"
    /\ nextPedidoId <= MaxPedidos
    /\ pedidos' = Insert(pedidos, nextPedidoId,
                         [clienteId |-> loc[p].body.clienteId,
                          estado |-> loc[p].body.estado,
                          cobrado |-> loc[p].body.cobrado,
                          total |-> loc[p].body.total,
                          observacion |-> loc[p].body.observacion,
                          repartoId |-> loc[p].reparto,
                          items |-> loc[p].body.items])
    /\ nextPedidoId' = nextPedidoId + 1
    /\ loc' = [loc EXCEPT ![p].id = nextPedidoId, ![p].status = 201]
    /\ resp' = Response("PedidoPOST", 201)
    /\ pc' = [pc EXCEPT ![p] = "fin"]
    /\ UNCHANGED <<clientes, repartos, precios, nextRepartoId, nextPrecioId,
                   now, catalogo, cuentas>>

NextAltas ==
    \/ \E p \in Procs, c \in ClienteIds :
          PedidoPOSTInicio(p, UnItem(c, "PENDIENTE", FALSE))
    \/ \E p \in Procs : PedidoPOSTProximo(p)
    \/ \E p \in Procs : PedidoPOSTCrear(p)
    \/ \E p \in Procs, f \in HoyYManana, z \in Zonas :
          RepartoPOSTInicio(p, f, z, TRUE)
    \/ \E p \in Procs : RepartoPOSTBuscar(p)
    \/ \E p \in Procs : RepartoPOSTCrear(p)
    \/ \E p \in Procs : RepartoPOSTClientes(p)
    \/ \E p \in Procs : RepartoPOSTAsignar(p)

SpecAltas == Init /\ [][NextAltas]_vars

----------------------------------------------------------------------------
(* SpecEntregaYBorrado: Delete DeliveryRound requests of an administrator *)
(* whose database statements interleave with requests that mark an order  *)
(* delivered.  Orders and rounds are created while no deletion runs.      *)

\* lines 214-247: session, await db.reparto.findUnique with its orders,
\* and the 404 and 400 answers
RepartoDELETEInicio(p, id) ==
    /\ pc[p] = "idle"
    /\ IF id \notin DOMAIN repartos
       THEN /\ loc' = [loc EXCEPT ![p] = [borrar |-> id, status |-> 404]]
            /\ resp' = Response("RepartoDELETE", 404)
            /\ pc' = [pc EXCEPT ![p] = "fin"]
       ELSE IF PedidosEntregados(id)
       THEN /\ loc' = [loc EXCEPT ![p] = [borrar |-> id, status |-> 400]]
            /\ resp' = Response("RepartoDELETE", 400)
            /\ pc' = [pc EXCEPT ![p] = "fin"]
       ELSE /\ loc' = [loc EXCEPT ![p] = [borrar |-> id, status |-> 0]]
            /\ pc' = [pc EXCEPT ![p] = "desasignar"]
            /\ UNCHANGED resp
    /\ UNCHANGED <<clientes, pedidos, repartos, precios, nextPedidoId,
                   nextRepartoId, nextPrecioId, now, catalogo, cuentas>>

\* lines 250-258: await db.pedido.updateMany
RepartoDELETEDesasignar(p) ==
    /\ pc[p] = "desasignar"
    /\ pedidos' = Desasignar(pedidos, loc[p].borrar)
    /\ pc' = [pc EXCEPT ![p] = "borrar"]
    /\ UNCHANGED <<clientes, repartos, precios, nextPedidoId, nextRepartoId,
                   nextPrecioId, now, catalogo, cuentas, resp, loc>>

\* lines 260-276: await db.reparto.delete and the response; the delete
\* throws when another request has deleted the round
RepartoDELETEBorrar(p) ==
    /\ pc[p] = "borrar"
    /\ IF loc[p].borrar \in DOMAIN repartos
       THEN /\ repartos' = Remove(repartos, loc[p].borrar)
            /\ loc' = [loc EXCEPT ![p].status = 200]
            /\ resp' = Response("RepartoDELETE", 200)
       ELSE /\ loc' = [loc EXCEPT ![p].status = 500]
            /\ resp' = Response("RepartoDELETE", 500)
            /\ UNCHANGED repartos
    /\ pc' = [pc EXCEPT ![p] = "fin"]
    /\ UNCHANGED <<clientes, pedidos, precios, nextPedidoId, nextRepartoId,
                   nextPrecioId, now, catalogo, cuentas>>

NextEntregaYBorrado ==
    \/ \E c \in ClienteIds :
          /\ \A p \in Procs : pc[p] = "idle"
          /\ PedidoPOST(Admin, UnItem(c, "PENDIENTE", FALSE))
    \/ \E f \in HoyYManana, z \in Zonas :
          /\ \A p \in Procs : pc[p] = "idle"
          /\ RepartoPOST(Admin, f, z, TRUE)
    \/ \E id \in PedidoIdInputs, b \in Entrega : PedidoPUT(Admin, id, b)
    \/ \E p \in Procs, id \in RepartoIdInputs : RepartoDELETEInicio(p, id)
    \/ \E p \in Procs : RepartoDELETEDesasignar(p)
    \/ \E p \in Procs : RepartoDELETEBorrar(p)

SpecEntregaYBorrado == Init /\ [][NextEntregaYBorrado]_vars

----------------------------------------------------------------------------
(* Properties *)

ZonaDelPedido(p) == clientes[pedidos[p].clienteId].zona

\* C1: with price creations and updates handled one at a time, at most one
\* price is active for each category and tier.
C1_UnSoloActivo ==
    \A i, j \in DOMAIN precios :
        (/\ i # j
         /\ precios[i].categoriaId = precios[j].categoriaId
         /\ precios[i].tipo = precios[j].tipo)
            => ~(precios[i].activo /\ precios[j].activo)

\* C2: an order whose status is ENTREGADO (delivered) never becomes
\* CANCELADO (cancelled), whatever update or cancel request a permitted
\* actor sends.
C2_EntregadoNoSeCancela ==
    [][\A p \in DOMAIN pedidos :
          pedidos[p].estado = "ENTREGADO"
             => pedidos'[p].estado # "CANCELADO"]_vars

\* C3: ENTREGADO and CANCELADO are terminal: once an order has one of them,
\* no later request changes its status.
C3_EstadosTerminales ==
    [][\A p \in DOMAIN pedidos :
          pedidos[p].estado \in {"ENTREGADO", "CANCELADO"}
             => pedidos'[p].estado = pedidos[p].estado]_vars

\* Another round than self has the zone and the calendar day of fecha
Duplicaria(fecha, zona, self) ==
    \E r \in DOMAIN repartos \ {self} :
        /\ repartos[r].zona = zona
        /\ DayOf(repartos[r].fecha) = DayOf(fecha)

UnicoPorZonaYDia ==
    \A r, q \in DOMAIN repartos :
        r # q => ~ /\ repartos[r].zona = repartos[q].zona
                   /\ DayOf(repartos[r].fecha) = DayOf(repartos[q].fecha)

RechazoDuplicado ==
    \/ resp'.op \notin {"RepartoPOST", "RepartoPUT"}
    \/ resp'.status = 400 /\ UNCHANGED <<repartos, pedidos>>
    \/ /\ \A f \in FechasConHora, z \in Zonas :
             Duplicaria(f, z, Null) =>
                \A e \in BOOLEAN : ~RepartoPOST(Admin, f, z, e)
       /\ \A id \in DOMAIN repartos, f \in FechasConHora, z \in Zonas :
             Duplicaria(f, z, id) =>
                \A e \in BOOLEAN : ~RepartoPUT(Admin, id, f, z, e)

\* C4: with round creations and updates handled one at a time, no two
\* rounds share a zone and a calendar day, and a creation or update that
\* would make a duplicate answers 400 and changes no round and no order
\* (a step of a round creation or update either is such an answer, or is
\* the step of no request that would make a duplicate).
C4_UnicoPorZonaYDia == []UnicoPorZonaYDia /\ [][RechazoDuplicado]_vars

\* A duplicate was just rejected while a pending unassigned order of the
\* zone of a round was waiting.
C4_Witness ==
    /\ resp \in {Response("RepartoPOST", 400), Response("RepartoPUT", 400)}
    /\ Cardinality(DOMAIN repartos) = 2
    /\ \E p \in DOMAIN pedidos : pedidos[p].repartoId = Null

\* C5: when two Create Price requests that activate a price for the same
\* category and tier interleave their statements, the final state has at
\* most one active price for the pair.
C5_UnSoloActivoConcurrente ==
    (\A p \in Procs : pc[p] = "fin")
       => \A i, j \in DOMAIN precios :
             (/\ i # j
              /\ precios[i].categoriaId = precios[j].categoriaId
              /\ precios[i].tipo = precios[j].tipo)
                => ~(precios[i].activo /\ precios[j].activo)

\* C6: when two Create DeliveryRound requests for the same zone and day
\* interleave their steps, at most one of them succeeds and at most one
\* round exists for the zone and day afterwards.
C6_UnSoloRepartoConcurrente ==
    (/\ \A p \in Procs : pc[p] = "fin"
     /\ loc[1].zona = loc[2].zona
     /\ DayOf(loc[1].fecha) = DayOf(loc[2].fecha))
       => /\ ~(loc[1].status = 201 /\ loc[2].status = 201)
          /\ UnicoPorZonaYDia

\* Active rounds of the zone dated today or later
RepartosDesdeHoy(zona) ==
    {r \in DOMAIN repartos :
        /\ repartos[r].estado
        /\ repartos[r].zona = zona
        /\ DayOf(repartos[r].fecha) >= DayOf(now)}

\* C7: a created order of a client in zone Z is linked to the active round
\* of zone Z of earliest date among those dated today or later, and is left
\* unassigned exactly when there is none.
C7_AsignaProximoDesdeHoy ==
    [][resp' = Response("PedidoPOST", 201) =>
       \A c \in ClienteIds :
          PedidoPOST(Admin, UnItem(c, "PENDIENTE", FALSE))
             => LET cand == RepartosDesdeHoy(clientes[c].zona)
                    link == pedidos'[nextPedidoId].repartoId
                IN  IF cand = {} THEN link = Null
                    ELSE /\ link \in cand
                         /\ \A q \in cand :
                               repartos[link].fecha <= repartos[q].fecha]_vars

\* C8: a successful round creation for zone Z links to the new round
\* exactly the orders that are pending, unassigned and of a client of zone
\* Z, and leaves every other order as it was.
C8_AsignaExactamente ==
    [][resp' = Response("RepartoPOST", 201) =>
       \A z \in Zonas :
          RepartoPOST(Admin, repartos'[nextRepartoId].fecha, z,
                      repartos'[nextRepartoId].estado)
             => /\ DOMAIN pedidos' = DOMAIN pedidos
                /\ \A p \in DOMAIN pedidos :
                      LET elegible == /\ pedidos[p].estado = "PENDIENTE"
                                      /\ pedidos[p].repartoId = Null
                                      /\ ZonaDelPedido(p) = z
                      IN  /\ pedidos'[p].repartoId = nextRepartoId
                                <=> elegible
                          /\ ~elegible => pedidos'[p] = pedidos[p]]_vars

\* A round was just created and took an order
C8_Witness ==
    /\ resp = Response("RepartoPOST", 201)
    /\ \E p \in DOMAIN pedidos :
          /\ pedidos[p].repartoId = nextRepartoId - 1
          /\ pedidos[p].estado = "PENDIENTE"

\* C9: changing the zone of a round from A to B unlinks its orders of a
\* client of another zone than B, keeps its orders of a client of zone B,
\* takes every pending unassigned order of a client of zone B, and leaves
\* the orders of other rounds as they were.
C9_CambioDeZona ==
    [][resp' = Response("RepartoPUT", 200) =>
       \A id \in DOMAIN repartos, z \in Zonas :
          (/\ repartos[id].zona # z
           /\ RepartoPUT(Admin, id, repartos'[id].fecha, z,
                         repartos'[id].estado))
             => /\ DOMAIN pedidos' = DOMAIN pedidos
                /\ \A p \in DOMAIN pedidos :
                      pedidos'[p].repartoId =
                         IF pedidos[p].repartoId = id
                         THEN (IF ZonaDelPedido(p) = z THEN id ELSE Null)
                         ELSE IF /\ pedidos[p].repartoId = Null
                                 /\ pedidos[p].estado = "PENDIENTE"
                                 /\ ZonaDelPedido(p) = z
                         THEN id
                         ELSE pedidos[p].repartoId]_vars

\* A round was just updated and holds a delivered order of its zone
C9_Witness ==
    /\ resp = Response("RepartoPUT", 200)
    /\ \E p \in DOMAIN pedidos :
          /\ pedidos[p].repartoId \in DOMAIN repartos
          /\ pedidos[p].estado = "ENTREGADO"
          /\ repartos[pedidos[p].repartoId].zona = ZonaDelPedido(p)
          /\ repartos[pedidos[p].repartoId].zona # "NORTE"
          /\ pedidos[p].clienteId = 1

\* C10: deleting a round that has a delivered order answers 400 and leaves
\* the round and the links of its orders as they were.
C10_NoBorraConEntregados ==
    [][resp'.op = "RepartoDELETE" =>
       \A id \in RepartoIdInputs :
          (/\ RepartoDELETE(Admin, id)
           /\ id \in DOMAIN repartos
           /\ \E p \in DOMAIN pedidos :
                 pedidos[p].repartoId = id /\ pedidos[p].estado = "ENTREGADO")
             => /\ resp'.status = 400
                /\ UNCHANGED <<repartos, pedidos>>]_vars

\* A deletion was just rejected and a round holds a delivered order
C10_Witness ==
    /\ resp = Response("RepartoDELETE", 400)
    /\ \E p \in DOMAIN pedidos :
          /\ pedidos[p].repartoId \in DOMAIN repartos
          /\ pedidos[p].estado = "ENTREGADO"

\* Every order is unassigned or linked to a round that exists
VinculosValidos ==
    \A p \in DOMAIN pedidos :
        pedidos[p].repartoId = Null \/ pedidos[p].repartoId \in DOMAIN repartos

\* A successful deletion of a round unlinks the orders of the round and
\* changes nothing else of any order
BorradoDesvincula ==
    resp' = Response("RepartoDELETE", 200) =>
       \A id \in DOMAIN repartos \ DOMAIN repartos' :
          /\ DOMAIN pedidos' = DOMAIN pedidos
          /\ \A p \in DOMAIN pedidos :
                pedidos'[p] = IF pedidos[p].repartoId = id
                              THEN [pedidos[p] EXCEPT !.repartoId = Null]
                              ELSE pedidos[p]

\* C11: a successful deletion of a round sets the round link of each of its
\* orders to null and leaves their status and paid flag as they were, so in
\* every reachable state the round link of an order is null or the id of
\* an existing round.
C11_BorradoDesvincula == []VinculosValidos /\ [][BorradoDesvincula]_vars

\* The only round ever created was just deleted and a paid, cancelled order
\* is unassigned
C11_Witness ==
    /\ resp = Response("RepartoDELETE", 200)
    /\ repartos = Empty
    /\ nextRepartoId = 2
    /\ \E p \in DOMAIN pedidos :
          /\ pedidos[p].repartoId = Null
          /\ pedidos[p].estado = "CANCELADO"
          /\ pedidos[p].cobrado

\* The session may act on the orders of the client
Permitido(ses, clienteId) ==
    ses.role = "ADMIN" \/ (ses.role = "USER" /\ ses.clienteId = clienteId)

\* The body names a round that does not exist or whose zone is not the zone
\* of the client of order id
RepartoAjeno(id, body) ==
    /\ "repartoId" \in body.keys
    /\ body.repartoId # Null
    /\ body.repartoId \in DOMAIN repartos
          => repartos[body.repartoId].zona # ZonaDelPedido(id)

RespuestaDebida(ses, clienteId) ==
    IF Permitido(ses, clienteId)
    THEN resp'.status # 403
    ELSE resp'.status = 403 /\ UNCHANGED pedidos

PermisoDePedidos ==
    \A ses \in Sessions \ {NoSession} :
       /\ resp'.op = "PedidoPOST" =>
             \A c \in ClienteIdInputs, k \in BOOLEAN :
                PedidoPOST(ses, UnItem(c, "PENDIENTE", k))
                   => RespuestaDebida(ses, c)
       /\ resp'.op = "PedidoGET" =>
             \A id \in DOMAIN pedidos :
                PedidoGET(ses, id)
                   => RespuestaDebida(ses, pedidos[id].clienteId)
       /\ resp'.op = "PedidoPUT" =>
             \A id \in DOMAIN pedidos, body \in SoloEstado :
                PedidoPUT(ses, id, body)
                   => RespuestaDebida(ses, pedidos[id].clienteId)
       /\ resp'.op = "PedidoDELETE" =>
             \A id \in DOMAIN pedidos :
                PedidoDELETE(ses, id)
                   => RespuestaDebida(ses, pedidos[id].clienteId)

\* C13: creating, reading, updating and cancelling an order is allowed only
\* to an administrator and to a user whose client is the client of the
\* order: a user without a client, or of another client, is answered 403
\* and nothing changes, and the permitted sessions are never answered 403.
C13_PermisoDePedidos == [][PermisoDePedidos]_vars

\* A request on a pending order was just denied
C13_Witness ==
    /\ resp.status = 403
    /\ resp.op \in {"PedidoGET", "PedidoPUT", "PedidoDELETE"}
    /\ \E p \in DOMAIN pedidos : pedidos[p].estado = "PENDIENTE"

\* The sessions of role USER
Usuarios == {ses \in Sessions : ses.role = "USER"}

\* The request is refused and the store is as it was
Denegado == resp'.status \in {401, 403} /\ UNCHANGED store

\* C14: listing, reading, creating, updating and deleting clients and
\* rounds (as products, categories, prices and users) is for administrators
\* only: every such request of a session of role USER is denied.
C14_SoloAdministrador ==
    [][\A ses \in Usuarios :
          /\ ClientesGET(ses) => Denegado
          /\ \A id \in ClienteIdInputs : ClienteGET(ses, id) => Denegado
          /\ \A id \in ClienteIdInputs, z \in Zonas :
                ClientePUT(ses, id, z) => Denegado
          /\ RepartosGET(ses) => Denegado
          /\ \A id \in RepartoIdInputs : RepartoGET(ses, id) => Denegado
          /\ \A f \in HoyYManana, z \in Zonas :
                RepartoPOST(ses, f, z, TRUE) => Denegado
          /\ \A id \in RepartoIdInputs :
                RepartoDELETE(ses, id) => Denegado]_vars

\* C15: every newly created order has the status PENDIENTE.
C15_CreadoPendiente ==
    [][resp' = Response("PedidoPOST", 201)
          => pedidos'[nextPedidoId].estado = "PENDIENTE"]_vars

\* The update body that sets the paid flag to k and nothing else
Cobrar(k) ==
    [keys |-> {"cobrado"}, estado |-> "PENDIENTE", cobrado |-> k,
     observacion |-> Null, repartoId |-> Null]

\* Marking paid, delivering and then cancelling an order, by session ses
CobrarEntregarCancelar(ses, id) ==
    /\ (/\ pedidos[id].estado = "PENDIENTE"
        /\ ~pedidos[id].cobrado
        /\ PedidoPUT(ses, id, Cobrar(TRUE)))
          => /\ resp'.status = 200
             /\ pedidos' = [pedidos EXCEPT ![id].cobrado = TRUE]
    /\ (/\ pedidos[id].estado = "PENDIENTE"
        /\ pedidos[id].cobrado
        /\ \E body \in Entrega : PedidoPUT(ses, id, body))
          => /\ resp'.status = 200
             /\ pedidos' = [pedidos EXCEPT ![id].estado = "ENTREGADO"]
    /\ (/\ pedidos[id].estado = "ENTREGADO"
        /\ pedidos[id].cobrado
        /\ PedidoDELETE(ses, id))
          => /\ resp'.status = 400
             /\ UNCHANGED pedidos

\* C16: for a pending unpaid order, setting paid through Update Order makes
\* it paid and leaves it pending; marking it delivered then makes it
\* ENTREGADO; a later cancel answers 400 and the order stays delivered and
\* paid.
C16_CobrarEntregarCancelar ==
    [][resp'.op \in {"PedidoPUT", "PedidoDELETE"} =>
       \A id \in DOMAIN pedidos, ses \in AdminYUsuario :
          Permitido(ses, pedidos[id].clienteId)
             => CobrarEntregarCancelar(ses, id)]_vars

\* The cancel of an order that was marked paid and then delivered was just
\* rejected
C16_Witness ==
    /\ resp = Response("PedidoDELETE", 400)
    /\ \E p \in DOMAIN pedidos :
          pedidos[p].estado = "ENTREGADO" /\ pedidos[p].cobrado

MismoPar(p, q) == p.categoriaId = q.categoriaId /\ p.tipo = q.tipo

\* The effect of a successful creation of an active price on the prices
AltaActiva ==
    LET id == nextPrecioId
        nuevo == precios'[id]
    IN  nuevo.activo =>
           /\ \A i \in DOMAIN precios :
                 precios'[i] =
                    IF MismoPar(precios[i], nuevo) /\ precios[i].activo
                    THEN [precios[i] EXCEPT !.activo = FALSE,
                                            !.fechaFin = now]
                    ELSE precios[i]
           /\ \A j \in DOMAIN precios' :
                 (MismoPar(precios'[j], nuevo) /\ precios'[j].activo)
                    => j = id

\* C18: a successful creation of an active price of category c and tier t
\* makes every price of (c, t) that was active inactive with end date now,
\* leaves the prices of every other pair as they were, and the new price is
\* the only active price of (c, t); a creation for a category that does
\* not exist is rejected and changes no price.
C18_AltaDePrecio ==
    [][resp'.op = "PrecioPOST" =>
       /\ nextPrecioId' # nextPrecioId => AltaActiva
       /\ \A t \in DosTipos, a \in BOOLEAN,
             c \in CategoriaIdInputs \ DOMAIN categorias :
             PrecioPOST(Admin, t, a, c, Null)
                => resp'.status = 400 /\ UNCHANGED precios]_vars

\* A price was just created active and the price it replaced ended now
C18_Witness ==
    /\ resp = Response("PrecioPOST", 201)
    /\ now > 0
    /\ \E i, j \in DOMAIN precios :
          /\ i < j
          /\ MismoPar(precios[i], precios[j])
          /\ ~precios[i].activo /\ precios[i].fechaFin = now
          /\ precios[j].activo

RECURSIVE SumaSubtotales(_)
SumaSubtotales(items) ==
    IF items = <<>> THEN 0
    ELSE Head(items).subtotal + SumaSubtotales(Tail(items))

\* C19: the total stored for a created order is the sum of the subtotals of
\* its items, and the subtotal of each item is its quantity times its unit
\* price.
C19_TotalCalculado ==
    [][resp' = Response("PedidoPOST", 201) =>
       LET p == pedidos'[nextPedidoId]
       IN  /\ p.total = SumaSubtotales(p.items)
           /\ \A i \in DOMAIN p.items :
                 p.items[i].subtotal
                    = p.items[i].cantidad * p.items[i].precio]_vars

\* Every order has a client, every product and price a category, every
\* order item a product
ReferenciasValidas ==
    /\ \A p \in DOMAIN pedidos :
          /\ pedidos[p].clienteId \in DOMAIN clientes
          /\ \A i \in DOMAIN pedidos[p].items :
                pedidos[p].items[i].productoId \in DOMAIN productos
    /\ \A p \in DOMAIN productos :
          productos[p].categoriaId \in DOMAIN categorias
    /\ \A p \in DOMAIN precios :
          precios[p].categoriaId \in DOMAIN categorias

\* The deletion of a referenced client, category or product answers 400
\* and the entity remains
BorradoRechazado ==
    /\ \A id \in DOMAIN clientes :
          (ClienteDELETE(Admin, id)
             /\ \E p \in DOMAIN pedidos : pedidos[p].clienteId = id)
             => resp'.status = 400 /\ UNCHANGED clientes
    /\ \A id \in DOMAIN categorias :
          (CategoriaDELETE(Admin, id)
             /\ \/ \E p \in DOMAIN productos : productos[p].categoriaId = id
                \/ \E p \in DOMAIN precios : precios[p].categoriaId = id)
             => resp'.status = 400 /\ UNCHANGED categorias
    /\ \A id \in DOMAIN productos :
          (ProductoDELETE(Admin, id)
             /\ \E p \in DOMAIN pedidos : \E i \in DOMAIN pedidos[p].items :
                   pedidos[p].items[i].productoId = id)
             => resp'.status = 400 /\ UNCHANGED productos

\* C20: deleting a client that has an order, a category that has a product
\* or a price, or a product that an order item references answers 400 and
\* the entity remains; so in every reachable state every order has an
\* existing client, every product and price an existing category, and
\* every order item an existing product.
C20_ReferenciasValidas ==
    []ReferenciasValidas /\ [][BorradoRechazado]_vars

\* The deletion of the product of an order item was just refused, after an
\* unused category was deleted and while a price exists
C20_Witness ==
    /\ resp = Response("ProductoDELETE", 400)
    /\ pedidos # Empty
    /\ precios # Empty
    /\ DOMAIN categorias # CategoriaIds

\* C21: a request answered 401 or 403 (no session, wrong role or wrong
\* client) creates, modifies and deletes nothing in the store.
C21_DenegadoNoEscribe ==
    [][resp'.status \in {401, 403}
         => UNCHANGED <<store, catalogo, cuentas, nextPedidoId,
                        nextRepartoId, nextPrecioId>>]_vars

\* The user of client 1 was just refused the cancellation of the pending
\* order of client 2, which is linked to a round
C21_Witness ==
    /\ resp = Response("PedidoDELETE", 403)
    /\ \E p \in DOMAIN pedidos :
          /\ pedidos[p].clienteId = 2
          /\ pedidos[p].estado = "PENDIENTE"
          /\ pedidos[p].repartoId # Null

\* C22: a Delete User request on the user of the session is rejected and
\* leaves the users as they were, whatever the role of the session.
C22_NoSeBorraASiMismo ==
    [][\A ses \in SesionesDeUsuario :
          UsuarioDELETE(ses, ses.id)
             => resp'.status \in {400, 401, 404} /\ UNCHANGED usuarios]_vars

\* An administrator was just refused the deletion of their own user while
\* two users exist, the second an administrator
C22_Witness ==
    /\ resp = Response("UsuarioDELETE", 400)
    /\ DOMAIN usuarios = {1, 2}
    /\ usuarios[2].role = "ADMIN"

\* C23: a delete by id of a client, category or product that does not
\* exist answers 404 and changes nothing in the store.
C23_NoEncontrado ==
    [][/\ \A id \in ClienteIdInputs \ DOMAIN clientes :
            ClienteDELETE(Admin, id)
               => resp'.status = 404 /\ UNCHANGED <<store, catalogo>>
       /\ \A id \in CategoriaIdInputs \ DOMAIN categorias :
            CategoriaDELETE(Admin, id)
               => resp'.status = 404 /\ UNCHANGED <<store, catalogo>>
       /\ \A id \in ProductoIdInputs \ DOMAIN productos :
            ProductoDELETE(Admin, id)
               => resp'.status = 404 /\ UNCHANGED <<store, catalogo>>]_vars

\* C24: a Create Price request that answers an error after its first write
\* leaves the prices as they were before the request.
C24_TodoONada ==
    [][\A p \in Procs : PrecioPOSTFalla(p) => precios' = loc[p].antes]_vars

\* C25: when a Create Order for a client of zone Z and a Create
\* DeliveryRound for zone Z (active, of a later date) have run with their
\* steps interleaved and both have completed, the new pending order is
\* linked to the new round.
C25_AltasConcurrentes ==
    \A p, q \in Procs :
        (/\ pc[p] = "fin" /\ pc[q] = "fin"
         /\ "body" \in DOMAIN loc[p] /\ loc[p].status = 201
         /\ "fecha" \in DOMAIN loc[q] /\ loc[q].status = 201
         /\ loc[q].zona = loc[p].zona
         /\ loc[q].estado
         /\ loc[q].fecha > now)
        => pedidos[loc[p].id].repartoId = loc[q].id

\* C26: in every reachable state, an order that is linked to a round has
\* a client of the zone of the round.
C26_ZonaDelReparto ==
    \A p \in DOMAIN pedidos :
        pedidos[p].repartoId # Null
            => /\ pedidos[p].repartoId \in DOMAIN repartos
               /\ repartos[pedidos[p].repartoId].zona = ZonaDelPedido(p)

\* C27: when Delete DeliveryRound runs concurrently with a request that
\* marks an order of the round delivered, no step of the deletion unlinks
\* the orders of the round or deletes the round once an order linked to it
\* is delivered.
C27_EntregaYBorrado ==
    [][\A p \in Procs :
          (RepartoDELETEDesasignar(p) \/ RepartoDELETEBorrar(p))
             => ~PedidosEntregados(loc[p].borrar)]_vars

\* C28: creating, updating and deleting a round leave every delivered
\* order linked to the round it was linked to.
C28_EntregadoConservaReparto ==
    [][resp'.op \in {"RepartoPOST", "RepartoPUT", "RepartoDELETE"}
         => \A p \in DOMAIN pedidos :
               pedidos[p].estado = "ENTREGADO"
                  => pedidos'[p].repartoId = pedidos[p].repartoId]_vars

\* The round r, as stored after the step, is active and of today or later
ActivoYVigente(r) ==
    /\ r \in DOMAIN repartos'
    /\ repartos'[r].estado
    /\ DayOf(repartos'[r].fecha) >= DayOf(now)

\* C29: an order that the creation of an order or of a round links to a
\* round is linked to a round that is active and whose date is not in the
\* past at the time of linking.
C29_AsignaActivoYVigente ==
    [][resp'.op \in {"PedidoPOST", "RepartoPOST"}
         => \A p \in DOMAIN pedidos' :
               (/\ pedidos'[p].repartoId # Null
                /\ (p \in DOMAIN pedidos
                       => pedidos[p].repartoId # pedidos'[p].repartoId))
                  => ActivoYVigente(pedidos'[p].repartoId)]_vars

\* C30: cancelling an order that is already cancelled answers 200 and
\* leaves the order as it was: status CANCELADO, and paid flag, note, round
\* link and items unchanged.
C30_CancelarDosVeces ==
    [][\A ses \in AdminYUsuario, id \in DOMAIN pedidos :
          (/\ PedidoDELETE(ses, id)
           /\ Permitido(ses, pedidos[id].clienteId)
           /\ pedidos[id].estado = "CANCELADO")
             => /\ resp'.status = 200
                /\ pedidos' = pedidos]_vars

\* A cancel was just accepted on an order that is cancelled, paid and
\* linked to a round
C30_Witness ==
    /\ resp = Response("PedidoDELETE", 200)
    /\ \E p \in DOMAIN pedidos :
          /\ pedidos[p].estado = "CANCELADO"
          /\ pedidos[p].cobrado
          /\ pedidos[p].repartoId # Null

====
